---------------------------- MODULE Spec2Model ----------------------------
(***************************************************************************)
(* A state-machine model of pybulletgym/envs/robots/robot_locomotors.py:   *)
(* the legged robots' reset / apply_action / calc_state handlers and the   *)
(* HumanoidFlagrun / HumanoidFlagrunHarder target, crawl, ground-recovery  *)
(* and attack state machines.                                              *)
(*                                                                         *)
(* Numbers are fixed point.                                                *)
(*   ground-plane lengths : integers, Scale units per metre                *)
(*   heights              : tenths of a metre (0.8 m is 8)                 *)
(*   action entries       : ActUnit units per 1.0                          *)
(*   power                : hundredths (0.75 is 75)                        *)
(*   potentials           : 2*Scale units per 1.0                          *)
(*   alive bonus          : eighths (potential_leak 1.0 .. 2.0 is 8 .. 16) *)
(* What the physics engine, the scene and the random source return is an   *)
(* input of the handler that asks for it.  Of the observation vector only  *)
(* the height-delta entry is modelled; joint readings, heading and speed   *)
(* entries do not feed any modelled field.                                 *)
(***************************************************************************)
EXTENDS Integers, Sequences, FiniteSets, TLC

VARIABLES
    robot,                    \* the class of the robot object
    is_reset,                 \* robot_specific_reset has run at least once
    raised,                   \* the exception the last call ended with, or "none"
    call,                     \* the last call: [op, arg, ret, pre], pre a field's value on entry
    power_coef,               \* joint name -> Joint.power_coef
    motor_torque,             \* joint name -> the torque last commanded
    commanded,                \* joints commanded by the last apply_action call, in order
    initial_z,
    body_xyz,
    walk_target_x,
    walk_target_y,
    walk_target_dist,
    flag_timeout,
    potential,
    on_ground_frame_counter,
    crawl_start_potential,
    crawl_ignored_potential,
    aggressive_cube,
    cube_was_reset,           \* the last alive_bonus call reset the cube
    frame,                    \* self.frame, owned by the environment
    scene,                    \* [dt_inv, stadium_halflen, stadium_halfwidth]
    pc,                       \* the driver's next call within a tick
    ticks,                    \* calc_state calls since the last reset
    flag_age,                 \* calc_state calls since the flag was placed
    potential_fresh,          \* potential was computed for the current pose and target
    raw_prev,                 \* raw progress potential at the previous calc_potential call
    down_prev,                \* the previous calc_potential call saw z < 0.8
    raw_ignored               \* sum of raw progress changes between consecutive down calls

vars == << robot, is_reset, raised, call, power_coef, motor_torque, commanded,
           initial_z, body_xyz, walk_target_x, walk_target_y, walk_target_dist,
           flag_timeout, potential, on_ground_frame_counter,
           crawl_start_potential, crawl_ignored_potential, aggressive_cube,
           cube_was_reset, frame, scene, pc, ticks, flag_age, potential_fresh,
           raw_prev, down_prev, raw_ignored >>

(***************************************************************************)
(* Bounds of the model.                                                    *)
(***************************************************************************)
Scale == 2          \* ground-plane resolution: units per metre
ActUnit == 2        \* action resolution: units per 1.0
NJoints == 2        \* joints of each robot that are modelled
DtInv == 2          \* 1 / scene.dt
MaxTicks == 6       \* ticks per episode in the crawl and attack specifications
MaxAliveTicks == 172 \* ticks per episode in the ground-recovery specification

Heights == {0, 4, 8, 10}
LoaderCoefs == {1, 100}

(***************************************************************************)
(* Values.                                                                 *)
(***************************************************************************)
None == << >>
Some(v) == << v >>
Get(o) == o[1]

Fin(v) == [k |-> "fin", v |-> v]
NaN == [k |-> "nan", v |-> 0]
PosInf == [k |-> "inf", v |-> 1]
NegInf == [k |-> "inf", v |-> -1]
Unset == [k |-> "unset", v |-> 0]

Min(a, b) == IF a <= b THEN a ELSE b
Max(a, b) == IF a >= b THEN a ELSE b

\* np.isfinite on one entry
isfinite(x) == x.k = "fin"

\* np.clip on one float: NaN stays NaN, an infinity goes to the bound
clip(x, lo, hi) ==
    CASE x.k = "nan" -> NaN
      [] x.k = "inf" -> IF x.v > 0 THEN Fin(hi) ELSE Fin(lo)
      [] OTHER -> Fin(Max(lo, Min(hi, x.v)))

\* c * x for an integer c > 0 and a float x
scale(c, x) ==
    CASE x.k = "fin" -> Fin(c * x.v)
      [] OTHER -> x

\* np.clip on an integer
clipInt(v, lo, hi) == Max(lo, Min(hi, v))

RECURSIVE SqrtSearch(_, _, _)
SqrtSearch(n, lo, hi) ==
    IF lo >= hi THEN lo
    ELSE LET mid == (lo + hi + 1) \div 2
         IN IF mid * mid <= n THEN SqrtSearch(n, mid, hi)
                               ELSE SqrtSearch(n, lo, mid - 1)

\* np.linalg.norm of a 2-vector, rounded down to the length unit
norm(dy, dx) == SqrtSearch(dy * dy + dx * dx, 0, Max(dy, -dy) + Max(dx, -dx))

(***************************************************************************)
(* The robot classes.                                                      *)
(***************************************************************************)
BasicRobots == {"Hopper", "Walker2D", "HalfCheetah", "Ant", "Humanoid", "Atlas"}
FlagrunRobots == {"HumanoidFlagrun", "HumanoidFlagrunHarder"}
HumanoidRobots == {"Humanoid"} \cup FlagrunRobots

\* self.power, in hundredths
power ==
    CASE robot = "Hopper" -> 75
      [] robot = "Walker2D" -> 40
      [] robot = "HalfCheetah" -> 90
      [] robot = "Ant" -> 1050
      [] robot = "Atlas" -> 290
      [] OTHER -> 41

\* Humanoid.motor_names and Humanoid.motor_power as robot_specific_reset builds them
motor_names ==
    << "abdomen_z", "abdomen_y", "abdomen_x",
       "right_hip_x", "right_hip_z", "right_hip_y", "right_knee",
       "left_hip_x", "left_hip_z", "left_hip_y", "left_knee",
       "right_shoulder1", "right_shoulder2", "right_elbow",
       "left_shoulder1", "left_shoulder2", "left_elbow" >>

motor_power ==
    << 100, 100, 100,
       100, 100, 300, 200,
       100, 100, 300, 200,
       75, 75, 75,
       75, 75, 75 >>

\* The joints the loaded model has, in the order of self.ordered_joints
JointTable ==
    CASE robot = "Hopper" -> << "thigh_joint", "leg_joint", "foot_joint" >>
      [] robot = "Walker2D" -> << "foot_joint", "foot_left_joint", "thigh_joint",
                                  "leg_joint", "thigh_left_joint", "leg_left_joint" >>
      [] robot = "HalfCheetah" -> << "bthigh", "bshin", "bfoot", "fthigh", "fshin", "ffoot" >>
      [] robot = "Ant" -> << "hip_1", "ankle_1", "hip_2", "ankle_2" >>
      [] robot = "Atlas" -> << "l_leg_kny", "r_leg_kny", "back_bkz" >>
      [] OTHER -> motor_names

ordered_joints == SubSeq(JointTable, 1, Min(NJoints, Len(JointTable)))

JointNames == {ordered_joints[i] : i \in 1..Len(ordered_joints)}

\* self.motors: [self.jdict[n] for n in self.motor_names], for the joints modelled
motors == ordered_joints

\* The action entries tried: inside, on and outside [-1, 1], and non-finite ones
ActionValues ==
    {Fin(-ActUnit - 1), Fin(1), Fin(ActUnit), Fin(ActUnit + 1), NaN, PosInf}

\* The action vectors tried: every entry the same finite value but one, which takes
\* each of the values above at each position
ActionVectors ==
    {[n \in 1..Len(ordered_joints) |-> IF n = i THEN v ELSE w] :
        i \in 1..Len(ordered_joints), v \in ActionValues, w \in {Fin(1), Fin(ActUnit + 1)}}

(***************************************************************************)
(* Construction: WalkerBase.__init__ sets power and a target a kilometre   *)
(* away; every other field appears at reset.  Fields that do not exist yet *)
(* are None, or 0 for the counters reset assigns before any read.          *)
(***************************************************************************)
Constructed(robots, sc) ==
    /\ robot \in robots
    /\ scene = sc
    /\ is_reset = FALSE
    /\ raised = "none"
    /\ call = [op |-> "__init__", arg |-> None, ret |-> None, pre |-> 0]
    /\ power_coef = [j \in JointNames |-> 0]
    /\ motor_torque = [j \in JointNames |-> Unset]
    /\ commanded = << >>
    /\ initial_z = None
    /\ body_xyz = None
    /\ walk_target_x = 1000 * Scale
    /\ walk_target_y = 0
    /\ walk_target_dist = 0
    /\ flag_timeout = 0
    /\ potential = None
    /\ on_ground_frame_counter = 0
    /\ crawl_start_potential = None
    /\ crawl_ignored_potential = 0
    /\ aggressive_cube = None
    /\ cube_was_reset = FALSE
    /\ frame = 0
    /\ pc = "reset"
    /\ ticks = 0
    /\ flag_age = 0
    /\ potential_fresh = FALSE
    /\ raw_prev = 0
    /\ down_prev = FALSE
    /\ raw_ignored = 0

(***************************************************************************)
(* robot_specific_reset, class by class.                                   *)
(***************************************************************************)
\* The power_coef overrides of Walker2D and HalfCheetah, on the loader's values
reset_power_coef(loaded) ==
    LET over ==
          CASE robot = "Walker2D" -> [foot_joint |-> 30, foot_left_joint |-> 30]
            [] robot = "HalfCheetah" -> [bthigh |-> 120, bshin |-> 90, bfoot |-> 60,
                                         fthigh |-> 140, fshin |-> 60, ffoot |-> 30]
            [] OTHER -> [none |-> 0]
    IN [j \in JointNames |-> IF j \in DOMAIN over THEN over[j] ELSE loaded[j]]

\* initial_z as the class's robot_specific_reset leaves it
reset_initial_z ==
    CASE robot \in HumanoidRobots -> Some(8)
      [] robot = "Atlas" -> Some(15)
      [] OTHER -> None

(***************************************************************************)
(* apply_action.                                                           *)
(***************************************************************************)
RECURSIVE WalkerBase_torque_loop(_, _, _, _)
WalkerBase_torque_loop(n, a, torque, cmd) ==
    IF n > Len(ordered_joints) THEN [motor_torque |-> torque, commanded |-> cmd]
    ELSE LET j == ordered_joints[n]
         IN WalkerBase_torque_loop(n + 1, a,
                [torque EXCEPT ![j] = scale(power * power_coef[j], clip(a[n], -ActUnit, ActUnit))],
                Append(cmd, j))

JointIndex(j) == CHOOSE n \in 1..Len(ordered_joints) : ordered_joints[n] = j

FirstBad(a) ==
    IF \A n \in DOMAIN a : isfinite(a[n]) THEN Len(ordered_joints) + 1
    ELSE CHOOSE n \in DOMAIN a : ~isfinite(a[n]) /\ \A m \in 1..(n - 1) : isfinite(a[m])

\* apply_action without np.clip
WalkerBase_apply_action_NoClip(a) ==
    IF ~(\A n \in DOMAIN a : isfinite(a[n]))
    THEN [raised |-> "AssertionError", motor_torque |-> motor_torque, commanded |-> << >>]
    ELSE [raised |-> "none",
          motor_torque |-> [j \in JointNames |->
                              scale(power * power_coef[j], a[JointIndex(j)])],
          commanded |-> ordered_joints]

WalkerBase_apply_action(a) ==
    IF ~(\A n \in DOMAIN a : isfinite(a[n]))
    THEN [raised |-> "AssertionError", motor_torque |-> motor_torque, commanded |-> << >>]
    ELSE [raised |-> "none"] @@ WalkerBase_torque_loop(1, a, motor_torque, << >>)

\* zip(range(17), self.motors, self.motor_power) stops at the shortest of the three
RECURSIVE Humanoid_torque_loop(_, _, _, _)
Humanoid_torque_loop(i, a, torque, cmd) ==
    IF i > Min(17, Min(Len(motors), Len(motor_power)))
    THEN [motor_torque |-> torque, commanded |-> cmd]
    ELSE LET m == motors[i]
         IN Humanoid_torque_loop(i + 1, a,
                [torque EXCEPT ![m] = scale(1 * motor_power[i] * power, a[i])],
                Append(cmd, m))

\* Humanoid.apply_action that tests each entry only when it reaches it
Humanoid_apply_action_LateAssert(a) ==
    [raised |-> IF FirstBad(a) > Len(motors) THEN "none" ELSE "AssertionError",
     motor_torque |-> [j \in JointNames |->
                         IF JointIndex(j) < FirstBad(a)
                         THEN scale(1 * motor_power[JointIndex(j)] * power, a[JointIndex(j)])
                         ELSE motor_torque[j]],
     commanded |-> SubSeq(motors, 1, FirstBad(a) - 1)]

Humanoid_apply_action(a) ==
    IF ~(\A n \in DOMAIN a : isfinite(a[n]))
    THEN [raised |-> "AssertionError", motor_torque |-> motor_torque, commanded |-> << >>]
    ELSE [raised |-> "none"] @@ Humanoid_torque_loop(1, a, motor_torque, << >>)

apply_action(a) ==
    IF robot \in HumanoidRobots THEN Humanoid_apply_action(a) ELSE WalkerBase_apply_action(a)

(***************************************************************************)
(* WalkerBase.calc_state on the pose the physics engine reports, against   *)
(* the target (tx, ty): the fields it assigns and the height-delta entry   *)
(* of the observation it returns.                                          *)
(* z - self.initial_z raises TypeError when initial_z is still None.         *)
(***************************************************************************)
WalkerBase_calc_state_Relatch(pose, iz, tx, ty) ==
    [body_xyz |-> Some(pose),
     initial_z |-> Some(pose.z),
     walk_target_dist |-> norm(ty - pose.y, tx - pose.x),
     raised |-> "none",
     obs |-> 0]

WalkerBase_calc_state(pose, iz, tx, ty) ==
    LET z == pose.z
        iz1 == IF iz = None THEN Some(z) ELSE iz
    IN [body_xyz |-> Some(pose),
        initial_z |-> iz1,
        walk_target_dist |-> norm(ty - pose.y, tx - pose.x),
        raised |-> IF iz1 = None THEN "TypeError" ELSE "none",
        obs |-> IF iz1 = None THEN 0 ELSE clipInt(z - Get(iz1), -50, 50)]

\* WalkerBase.calc_potential: -walk_target_dist / scene.dt
WalkerBase_calc_potential(dist) == -(2 * dist * scene.dt_inv)

(***************************************************************************)
(* HumanoidFlagrun: the flag.                                              *)
(***************************************************************************)
\* np_random.uniform(low, high): the samples of [low, high) whose half is a length unit
uniform(low, high) == {v \in low..(high - 1) : v % 2 = 0}

\* v * more_compact, more_compact = 0.5
more_compact(v) == v \div 2

\* The two draws flag_reposition makes
FlagDraws ==
    uniform(-scene.stadium_halflen, scene.stadium_halflen)
        \X uniform(-scene.stadium_halfwidth, scene.stadium_halfwidth)

\* flag_reposition with more_compact = 1.0, the whole field
flag_reposition_WholeField(draw) ==
    [walk_target_x |-> draw[1], walk_target_y |-> draw[2], flag_timeout |-> 200]

flag_reposition(draw) ==
    [walk_target_x |-> more_compact(draw[1]),
     walk_target_y |-> more_compact(draw[2]),
     flag_timeout |-> 200]

\* The test of calc_state that replaces the flag: walk_target_dist < 1 or flag_timeout <= 0
flag_due_Late(dist, timeout) == dist < 1 * Scale \/ timeout < 0

flag_due(dist, timeout) == dist < 1 * Scale \/ timeout <= 0

(***************************************************************************)
(* HumanoidFlagrunHarder: potential_leak, calc_potential, alive_bonus.     *)
(***************************************************************************)
\* potential_leak() = clip(z, 0, 0.8) / 0.8 + 1.0, in eighths
potential_leak(z) == clipInt(z, 0, 8) + 8

\* potential_leak() * 100 in potential units: (leak8 / 8) * 100 * (2 * Scale)
leak100(z) == potential_leak(z) * 25 * Scale

\* calc_potential that does not take the ignored progress out once the robot stands
Harder_calc_potential_NoReconcile(z, dist, start, ignored) ==
    LET flag_running_progress == WalkerBase_calc_potential(dist)
    IN IF z < 8
       THEN LET start1 == IF start = None
                          THEN Some(flag_running_progress - ignored)
                          ELSE start
            IN [ret |-> Get(start1) + leak100(z),
                crawl_start_potential |-> start1,
                crawl_ignored_potential |-> flag_running_progress - Get(start1)]
       ELSE [ret |-> flag_running_progress + leak100(z),
             crawl_start_potential |-> None,
             crawl_ignored_potential |-> ignored]

\* calc_potential that captures crawl_start_potential anew on every tick down
Harder_calc_potential_Recapture(z, dist, start, ignored) ==
    LET flag_running_progress == WalkerBase_calc_potential(dist)
    IN IF z < 8
       THEN [ret |-> (flag_running_progress - ignored) + leak100(z),
             crawl_start_potential |-> Some(flag_running_progress - ignored),
             crawl_ignored_potential |-> ignored]
       ELSE [ret |-> (flag_running_progress - ignored) + leak100(z),
             crawl_start_potential |-> None,
             crawl_ignored_potential |-> ignored]

\* calc_potential on torso height z: the value returned and the crawl fields it leaves
Harder_calc_potential(z, dist, start, ignored) ==
    LET flag_running_progress == WalkerBase_calc_potential(dist)
    IN IF z < 8
       THEN LET start1 == IF start = None
                          THEN Some(flag_running_progress - ignored)
                          ELSE start
            IN [ret |-> Get(start1) + leak100(z),
                crawl_start_potential |-> start1,
                crawl_ignored_potential |-> flag_running_progress - Get(start1)]
       ELSE [ret |-> (flag_running_progress - ignored) + leak100(z),
             crawl_start_potential |-> None,
             crawl_ignored_potential |-> ignored]

\* self.calc_potential() of the robot's class
calc_potential(z, dist, start, ignored) ==
    IF robot = "HumanoidFlagrunHarder"
    THEN Harder_calc_potential(z, dist, start, ignored)
    ELSE [ret |-> WalkerBase_calc_potential(dist),
          crawl_start_potential |-> start,
          crawl_ignored_potential |-> ignored]

\* calc_state that does not compute the state again after moving the flag
HumanoidFlagrun_calc_state_StaleDist(pose, draw) ==
    LET timeout1 == flag_timeout - 1
        s1 == WalkerBase_calc_state(pose, initial_z, walk_target_x, walk_target_y)
    IN IF flag_due(s1.walk_target_dist, timeout1)
       THEN LET fr == flag_reposition(draw)
                cp == calc_potential(pose.z, s1.walk_target_dist,
                                     crawl_start_potential, crawl_ignored_potential)
            IN s1 @@ fr @@ [repositioned |-> TRUE, potential |-> Some(cp.ret), cp |-> cp]
       ELSE s1 @@ [walk_target_x |-> walk_target_x, walk_target_y |-> walk_target_y,
                   flag_timeout |-> timeout1, repositioned |-> FALSE,
                   potential |-> potential,
                   cp |-> [crawl_start_potential |-> crawl_start_potential,
                           crawl_ignored_potential |-> crawl_ignored_potential]]

\* HumanoidFlagrun.calc_state on the pose read, with the draws a reposition would make
HumanoidFlagrun_calc_state(pose, draw) ==
    LET timeout1 == flag_timeout - 1
        s1 == WalkerBase_calc_state(pose, initial_z, walk_target_x, walk_target_y)
    IN IF flag_due(s1.walk_target_dist, timeout1)
       THEN LET fr == flag_reposition(draw)
                s2 == WalkerBase_calc_state(pose, s1.initial_z, fr.walk_target_x, fr.walk_target_y)
                cp == calc_potential(pose.z, s2.walk_target_dist,
                                     crawl_start_potential, crawl_ignored_potential)
            IN s2 @@ fr @@ [repositioned |-> TRUE, potential |-> Some(cp.ret), cp |-> cp]
       ELSE s1 @@ [walk_target_x |-> walk_target_x, walk_target_y |-> walk_target_y,
                   flag_timeout |-> timeout1, repositioned |-> FALSE,
                   potential |-> potential,
                   cp |-> [crawl_start_potential |-> crawl_start_potential,
                           crawl_ignored_potential |-> crawl_ignored_potential]]

\* The test without the condition that the robot is standing
attack_due_AlsoWhenDown(f, counter) == f % 30 = 0 /\ f > 100

\* The test of alive_bonus that launches the cube
attack_due(f, counter) == f % 30 = 0 /\ f > 100 /\ counter = 0

\* on_ground_frame_counter after alive_bonus(z, pitch)
ground_counter(counter, z) ==
    IF z < 8 THEN counter + 1
    ELSE IF counter > 0 THEN counter - 1
    ELSE counter

\* The return that gives up one frame late
alive_return_OneLate(counter, bodyz) == IF counter <= 170 THEN potential_leak(bodyz) ELSE -8

\* The value alive_bonus returns, in eighths
alive_return(counter, bodyz) == IF counter < 170 THEN potential_leak(bodyz) ELSE -8

\* ObjectHelper.get_cube(-1.5, 0, 0.05), to the length and height units
cube_spawn == [position |-> [x |-> -((3 * Scale) \div 2), y |-> 0, z |-> 0],
               velocity |-> [aim |-> None, speed |-> 0]]

\* The cube as an attack leaves it: 4 m from the robot at the angle drawn, 1 m above
\* it, flying at the robot with the speed drawn
cube_attack(body, lead, dir, speed) ==
    LET target_xyz == [x |-> body.x + lead[1], y |-> body.y + lead[2], z |-> body.z + lead[3]]
    IN [position |-> [x |-> target_xyz.x + 4 * Scale * dir[1],
                      y |-> target_xyz.y + 4 * Scale * dir[2],
                      z |-> target_xyz.z + 10],
        velocity |-> [aim |-> Some(target_xyz), speed |-> speed]]

\* robot_speed * time_to_travel: how far the robot is predicted to move before the hit
Leads == {<< 0, 0, 0 >>, << 1, 0, 0 >>}

Compass == {<< 1, 0 >>, << 0, 1 >>}
AttackSpeeds == {20, 29}

(***************************************************************************)
(* The handlers as actions.                                                *)
(***************************************************************************)
flagrun_fields == << walk_target_x, walk_target_y, flag_timeout, flag_age >>
harder_fields == << on_ground_frame_counter, crawl_start_potential,
                    crawl_ignored_potential, aggressive_cube >>
crawl_ghost == << raw_prev, down_prev, raw_ignored >>
torque_fields == << power_coef, motor_torque, commanded >>

\* robot_specific_reset of the robot's class; loaded is the power_coef the model
\* loader gave every joint, draw the two draws of flag_reposition
robot_specific_reset(loaded, draw) ==
    /\ is_reset' = TRUE
    /\ raised' = "none"
    /\ call' = [op |-> "robot_specific_reset", arg |-> None, ret |-> None, pre |-> 0]
    /\ power_coef' = reset_power_coef([j \in JointNames |-> loaded])
    /\ initial_z' = reset_initial_z
    /\ IF robot \in FlagrunRobots
       THEN LET fr == flag_reposition(draw)
            IN /\ walk_target_x' = fr.walk_target_x
               /\ walk_target_y' = fr.walk_target_y
               /\ flag_timeout' = fr.flag_timeout
       ELSE UNCHANGED << walk_target_x, walk_target_y, flag_timeout >>
    /\ IF robot = "HumanoidFlagrunHarder"
       THEN /\ aggressive_cube' = Some(cube_spawn)
            /\ on_ground_frame_counter' = 0
            /\ crawl_start_potential' = None
            /\ crawl_ignored_potential' = 0
       ELSE UNCHANGED harder_fields
    /\ flag_age' = 0
    /\ ticks' = 0
    /\ potential_fresh' = FALSE
    /\ cube_was_reset' = FALSE
    /\ raw_prev' = 0
    /\ down_prev' = FALSE
    /\ raw_ignored' = 0
    /\ pc' = "calc_state"
    /\ UNCHANGED << robot, scene, motor_torque, commanded, body_xyz,
                    walk_target_dist, potential, frame >>

ApplyAction ==
    /\ is_reset
    /\ \E a \in ActionVectors :
          LET out == apply_action(a)
          IN /\ raised' = out.raised
             /\ motor_torque' = out.motor_torque
             /\ commanded' = out.commanded
             /\ call' = [op |-> "apply_action", arg |-> a, ret |-> None, pre |-> 0]
    /\ UNCHANGED << robot, is_reset, scene, power_coef, initial_z, body_xyz,
                    walk_target_dist, potential, frame, pc, ticks,
                    potential_fresh, cube_was_reset >>
    /\ UNCHANGED << flagrun_fields, harder_fields, crawl_ghost >>

\* calc_state of a robot that inherits WalkerBase.calc_state
calc_state(pose) ==
    /\ is_reset
    /\ robot \notin FlagrunRobots
    /\ LET s == WalkerBase_calc_state(pose, initial_z, walk_target_x, walk_target_y)
       IN /\ body_xyz' = s.body_xyz
          /\ initial_z' = s.initial_z
          /\ walk_target_dist' = s.walk_target_dist
          /\ call' = [op |-> "calc_state", arg |-> pose, ret |-> s.obs, pre |-> 0]
          /\ raised' = s.raised
    /\ potential_fresh' = FALSE
    /\ UNCHANGED << robot, is_reset, scene, potential, frame, pc, ticks, cube_was_reset >>
    /\ UNCHANGED << torque_fields, flagrun_fields, harder_fields, crawl_ghost >>

\* What one calc_potential call adds to the sum of raw progress changes between
\* consecutive calls that both saw the robot down
CrawlGhost(z, dist) ==
    LET raw == WalkerBase_calc_potential(dist)
    IN IF robot = "HumanoidFlagrunHarder"
       THEN /\ raw_ignored' = IF down_prev /\ z < 8 THEN raw_ignored + (raw - raw_prev)
                                                    ELSE raw_ignored
            /\ raw_prev' = raw
            /\ down_prev' = (z < 8)
       ELSE UNCHANGED crawl_ghost

\* calc_state of HumanoidFlagrun and HumanoidFlagrunHarder; next is the driver's next
\* call, cap the number of ticks the specification counts
flagrun_calc_state(pose, draw, next, cap) ==
    /\ is_reset
    /\ robot \in FlagrunRobots
    /\ pc = "calc_state"
    /\ LET s == HumanoidFlagrun_calc_state(pose, draw)
       IN /\ body_xyz' = s.body_xyz
          /\ initial_z' = s.initial_z
          /\ walk_target_dist' = s.walk_target_dist
          /\ walk_target_x' = s.walk_target_x
          /\ walk_target_y' = s.walk_target_y
          /\ flag_timeout' = s.flag_timeout
          /\ potential' = s.potential
          /\ crawl_start_potential' = s.cp.crawl_start_potential
          /\ crawl_ignored_potential' = s.cp.crawl_ignored_potential
          /\ flag_age' = IF s.repositioned THEN 0 ELSE flag_age + 1
          /\ potential_fresh' = s.repositioned
          /\ IF s.repositioned THEN CrawlGhost(pose.z, s.walk_target_dist)
                               ELSE UNCHANGED crawl_ghost
          /\ call' = [op |-> "calc_state", arg |-> pose, ret |-> s.obs, pre |-> flag_timeout]
          /\ raised' = s.raised
    /\ ticks' = Min(ticks + 1, cap)
    /\ pc' = next
    /\ UNCHANGED << robot, is_reset, scene, frame, cube_was_reset,
                    on_ground_frame_counter, aggressive_cube >>
    /\ UNCHANGED torque_fields

\* The driver's self.potential = robot.calc_potential() of a tick
driver_calc_potential ==
    /\ is_reset
    /\ robot \in FlagrunRobots
    /\ pc = "calc_potential"
    /\ LET cp == calc_potential(Get(body_xyz).z, walk_target_dist,
                                crawl_start_potential, crawl_ignored_potential)
       IN /\ potential' = Some(cp.ret)
          /\ crawl_start_potential' = cp.crawl_start_potential
          /\ crawl_ignored_potential' = cp.crawl_ignored_potential
          /\ call' = [op |-> "calc_potential", arg |-> None, ret |-> cp.ret, pre |-> 0]
    /\ CrawlGhost(Get(body_xyz).z, walk_target_dist)
    /\ potential_fresh' = TRUE
    /\ raised' = "none"
    /\ pc' = "calc_state"
    /\ UNCHANGED << robot, is_reset, scene, frame, cube_was_reset, ticks,
                    initial_z, body_xyz, walk_target_dist,
                    on_ground_frame_counter, aggressive_cube >>
    /\ UNCHANGED << torque_fields, flagrun_fields >>

\* HumanoidFlagrunHarder.alive_bonus(z, pitch) at tick index f, with the draws an
\* attack would make
alive_bonus(f, z, pitch, lead, dir, speed) ==
    /\ is_reset
    /\ robot = "HumanoidFlagrunHarder"
    /\ pc = "alive_bonus"
    /\ frame' = f
    /\ IF attack_due(f, on_ground_frame_counter)
       THEN /\ aggressive_cube' = Some(cube_attack(Get(body_xyz), lead, dir, speed))
            /\ cube_was_reset' = TRUE
       ELSE /\ aggressive_cube' = aggressive_cube
            /\ cube_was_reset' = FALSE
    /\ on_ground_frame_counter' = ground_counter(on_ground_frame_counter, z)
    /\ call' = [op |-> "alive_bonus", arg |-> z,
                ret |-> alive_return(on_ground_frame_counter', Get(body_xyz).z),
                pre |-> on_ground_frame_counter]
    /\ raised' = "none"
    /\ pc' = "calc_state"
    /\ UNCHANGED << robot, is_reset, scene, ticks, initial_z, body_xyz,
                    walk_target_dist, potential, potential_fresh,
                    crawl_start_potential, crawl_ignored_potential >>
    /\ UNCHANGED << torque_fields, flagrun_fields, crawl_ghost >>

(***************************************************************************)
(* Spec: the robots that are not flag runners (Hopper, Walker2D,           *)
(* HalfCheetah, Ant, Humanoid, Atlas); reset and apply_action.             *)
(***************************************************************************)
NoStadium == [dt_inv |-> DtInv, stadium_halflen |-> 0, stadium_halfwidth |-> 0]

Init == Constructed(BasicRobots, NoStadium)

BasicReset == \E c \in LoaderCoefs : robot_specific_reset(c, << 0, 0 >>)

Next == BasicReset \/ ApplyAction

Spec == Init /\ [][Next]_vars

(***************************************************************************)
(* SpecState: the same robots; reset and calc_state.                       *)
(***************************************************************************)
BasicCalcState == \E z \in Heights : calc_state([x |-> 0, y |-> 0, z |-> z])

NextState == BasicReset \/ BasicCalcState

SpecState == Init /\ [][NextState]_vars

(***************************************************************************)
(* SpecFlagrun: a HumanoidFlagrun on a stadium; each tick the driver calls *)
(* calc_state, then calc_potential.                                        *)
(* The random source is asked for a target only when the flag is replaced. *)
(***************************************************************************)
HalfLen == 4        \* scene.stadium_halflen, in length units
HalfWidth == 2      \* scene.stadium_halfwidth, in length units

Stadium == [dt_inv |-> DtInv, stadium_halflen |-> HalfLen, stadium_halfwidth |-> HalfWidth]

DrawsIfDue(pose) ==
    IF flag_due(norm(walk_target_y - pose.y, walk_target_x - pose.x), flag_timeout - 1)
    THEN FlagDraws
    ELSE {<< 0, 0 >>}

FlagrunPoses == {[x |-> x, y |-> y, z |-> 10] : x \in {-2, 3}, y \in {0, 1}}

InitFlagrun == Constructed({"HumanoidFlagrun"}, Stadium)

FlagrunReset == \E draw \in FlagDraws : robot_specific_reset(100, draw)

FlagrunCalcState ==
    \E pose \in FlagrunPoses : \E draw \in DrawsIfDue(pose) :
        flagrun_calc_state(pose, draw, "calc_potential", 0)

NextFlagrun == FlagrunReset \/ FlagrunCalcState \/ driver_calc_potential

SpecFlagrun == InitFlagrun /\ [][NextFlagrun]_vars

(***************************************************************************)
(* SpecCrawl: both flag runners, standing, crouching or lying along the    *)
(* centre line of a narrow stadium, where flags are placed on that line;   *)
(* each tick the driver calls calc_state, then calc_potential; an episode  *)
(* lasts at most MaxTicks ticks.                                           *)
(***************************************************************************)
NarrowStadium == [dt_inv |-> DtInv, stadium_halflen |-> HalfLen, stadium_halfwidth |-> 1]

CrawlPoses == {[x |-> x, y |-> 0, z |-> z] : x \in {-2, 3}, z \in {0, 4, 10}}

InitCrawl == Constructed(FlagrunRobots, NarrowStadium)

CrawlReset ==
    /\ pc \in {"reset", "calc_state"}
    /\ \E draw \in FlagDraws : robot_specific_reset(100, draw)

CrawlCalcState ==
    /\ ticks < MaxTicks
    /\ \E pose \in CrawlPoses : \E draw \in DrawsIfDue(pose) :
          flagrun_calc_state(pose, draw, "calc_potential", MaxTicks)

NextCrawl == CrawlReset \/ CrawlCalcState \/ driver_calc_potential

SpecCrawl == InitCrawl /\ [][NextCrawl]_vars

(***************************************************************************)
(* SpecAlive: a HumanoidFlagrunHarder that stays 2 m from the only flag    *)
(* position of a small stadium and stands or crouches; each tick the       *)
(* driver calls calc_state, then alive_bonus, between attack frames; an    *)
(* episode lasts at most MaxAliveTicks ticks.                              *)
(***************************************************************************)
SmallStadium == [dt_inv |-> DtInv, stadium_halflen |-> 1, stadium_halfwidth |-> 1]

AlivePoses == {[x |-> 2 * Scale, y |-> 0, z |-> z] : z \in {4, 10}}

InitAlive == Constructed({"HumanoidFlagrunHarder"}, SmallStadium)

AliveReset ==
    /\ pc \in {"reset", "calc_state"}
    /\ \E draw \in FlagDraws : robot_specific_reset(100, draw)

AliveCalcState ==
    /\ ticks < MaxAliveTicks
    /\ \E pose \in AlivePoses : \E draw \in DrawsIfDue(pose) :
          flagrun_calc_state(pose, draw, "alive_bonus", MaxAliveTicks)

AliveBonus ==
    \E z \in {4, 10} : alive_bonus(7, z, 0, << 0, 0, 0 >>, << 1, 0 >>, 20)

NextAlive == AliveReset \/ AliveCalcState \/ AliveBonus

SpecAlive == InitAlive /\ [][NextAlive]_vars

(***************************************************************************)
(* SpecAttack: the same robot over short episodes, at frames around the    *)
(* attack schedule; the random source is asked only when an attack is due. *)
(***************************************************************************)
Frames == {90, 100, 119, 120, 150}

AttackPoses == {[x |-> 2 * Scale, y |-> 0, z |-> z] : z \in {4, 10}}

AttackCalcState ==
    /\ ticks < MaxTicks
    /\ \E pose \in AttackPoses : \E draw \in DrawsIfDue(pose) :
          flagrun_calc_state(pose, draw, "alive_bonus", MaxTicks)

AttackAliveBonus ==
    \E f \in Frames, z \in Heights :
        IF attack_due(f, on_ground_frame_counter)
        THEN \E lead \in Leads, dir \in Compass, speed \in AttackSpeeds :
                 alive_bonus(f, z, 0, lead, dir, speed)
        ELSE alive_bonus(f, z, 0, << 0, 0, 0 >>, << 1, 0 >>, 20)

NextAttack == AliveReset \/ AttackCalcState \/ AttackAliveBonus

SpecAttack == InitAlive /\ [][NextAttack]_vars

(***************************************************************************)
(* Claims on apply_action (Spec) and on initial_z (SpecState).             *)
(***************************************************************************)
AllFinite(a) == \A n \in DOMAIN a : isfinite(a[n])

AppliedFinite == call.op = "apply_action" /\ AllFinite(call.arg)

\* C6, as stated: after apply_action(a) with a finite, on every WalkerBase variant
\* (Humanoid is one), nothing was raised and the torque of each joint n is
\* power * power_coef[n] * clamp(a[n], -1, 1).
C6_ClampedOnEveryVariant ==
    AppliedFinite =>
        /\ raised = "none"
        /\ \A n \in 1..Len(ordered_joints) :
              motor_torque[ordered_joints[n]] =
                  Fin(power * power_coef[ordered_joints[n]]
                        * clipInt(call.arg[n].v, -ActUnit, ActUnit))

\* C6, amended: after apply_action(a) with a finite, nothing was raised; on the
\* variants that inherit WalkerBase.apply_action the torque of joint n is
\* power * power_coef[n] * clamp(a[n], -1, 1); on Humanoid the torque of the i-th
\* named motor is motor_power[i] * power * a[i], not clamped.
C6_TorqueByClass ==
    AppliedFinite =>
        /\ raised = "none"
        /\ commanded = ordered_joints
        /\ \A n \in 1..Len(ordered_joints) :
              motor_torque[ordered_joints[n]] =
                  IF robot \in HumanoidRobots
                  THEN Fin(motor_power[n] * power * call.arg[n].v)
                  ELSE Fin(power * power_coef[ordered_joints[n]]
                             * clipInt(call.arg[n].v, -ActUnit, ActUnit))

\* An action entry above 1 on a WalkerBase.apply_action robot commanded the torque of 1.
C6_Witness ==
    /\ AppliedFinite
    /\ robot = "HalfCheetah"
    /\ call.arg[1].v > ActUnit
    /\ call.arg[2].v < ActUnit
    /\ motor_torque["bthigh"] = Fin(90 * 120 * ActUnit)

\* C7: an apply_action call whose vector holds a non-finite entry ends in the
\* assertion's error, commands no joint and leaves every joint's torque as it was.
C7_NonFiniteCommandsNothing ==
    [][(call'.op = "apply_action" /\ ~AllFinite(call'.arg)) =>
          /\ raised' = "AssertionError"
          /\ commanded' = << >>
          /\ motor_torque' = motor_torque]_vars

\* A vector whose first entry is finite and whose last is not was refused after an
\* earlier call had commanded torques.
C7_Witness ==
    /\ call.op = "apply_action"
    /\ raised = "AssertionError"
    /\ isfinite(call.arg[1])
    /\ ~isfinite(call.arg[Len(ordered_joints)])
    /\ commanded = << >>
    /\ \A j \in JointNames : motor_torque[j] # Unset

\* C8: calc_state does not raise; when initial_z is unset it becomes the torso
\* height read, and the height-delta entry returned is 0; when it is set,
\* calc_state leaves it as it is.
C8_InitialZLatch ==
    [][(call'.op = "calc_state") =>
          /\ raised' = "none"
          /\ (initial_z = None =>
                 initial_z' = Some(Get(body_xyz').z) /\ call'.ret = 0)
          /\ (initial_z # None => initial_z' = initial_z)]_vars

\* A robot whose reset leaves initial_z unset latched it in one calc_state call and
\* kept it in a later call at another height.
C8_Witness ==
    /\ robot = "Hopper"
    /\ call.op = "calc_state"
    /\ raised = "none"
    /\ initial_z # None
    /\ Get(body_xyz).z # Get(initial_z)
    /\ call.ret = Get(body_xyz).z - Get(initial_z)

(***************************************************************************)
(* Claims on the flag (SpecFlagrun).                                       *)
(***************************************************************************)
FlagrunCalcStateStep == call'.op = "calc_state" /\ robot \in FlagrunRobots

\* The square of the distance, in length units, from the pose to the target
Dist2(pose, tx, ty) ==
    (tx - pose.x) * (tx - pose.x) + (ty - pose.y) * (ty - pose.y)

TargetInHalfField ==
    /\ -scene.stadium_halflen <= 2 * walk_target_x
    /\ 2 * walk_target_x <= scene.stadium_halflen
    /\ -scene.stadium_halfwidth <= 2 * walk_target_y
    /\ 2 * walk_target_y <= scene.stadium_halfwidth

\* C1: a calc_state call that computes a distance below 1 to the current target
\* returns with a target inside half the stadium's extents and flag_timeout = 200;
\* one that computes a distance of at least 1 with the timeout not expired leaves
\* the target as it is.
C1_ReachedFlagReplaced ==
    [][FlagrunCalcStateStep =>
          LET d2 == Dist2(call'.arg, walk_target_x, walk_target_y)
          IN /\ (d2 < Scale * Scale) =>
                    (TargetInHalfField' /\ flag_timeout' = 200 /\ flag_age' = 0)
             /\ (d2 >= Scale * Scale /\ flag_timeout - 1 > 0) =>
                    (walk_target_x' = walk_target_x /\ walk_target_y' = walk_target_y
                     /\ flag_age' = flag_age + 1)]_vars

\* A call that found the robot within 1 of the flag, long before the timeout, moved
\* the flag away from the robot.
C1_Witness ==
    /\ call.op = "calc_state"
    /\ robot \in FlagrunRobots
    /\ call.pre > 100
    /\ flag_timeout = 200
    /\ flag_age = 0
    /\ walk_target_dist >= Scale
    /\ TargetInHalfField

\* C10: after reset and after every calc_state return 1 <= flag_timeout <= 200, and
\* the flag has lived 200 - flag_timeout calls; a calc_state call either replaces
\* the flag or decrements the timeout by exactly 1; a flag that is not reached is
\* kept for 199 calls and replaced by the 200th.
C10_FlagLifetime ==
    [][/\ (is_reset' /\ robot \in FlagrunRobots) =>
              (1 <= flag_timeout' /\ flag_timeout' <= 200
               /\ flag_age' = 200 - flag_timeout')
       /\ FlagrunCalcStateStep =>
              /\ (flag_age' = 0 /\ flag_timeout' = 200)
                     \/ (flag_age' = flag_age + 1 /\ flag_timeout' = flag_timeout - 1
                         /\ walk_target_x' = walk_target_x
                         /\ walk_target_y' = walk_target_y)
              /\ (Dist2(call'.arg, walk_target_x, walk_target_y) >= Scale * Scale) =>
                     (flag_age' = 0 <=> flag_age = 199)]_vars

\* A flag the robot did not reach was replaced by the 200th call after it was placed.
C10_Witness ==
    /\ call.op = "calc_state"
    /\ robot \in FlagrunRobots
    /\ call.pre = 1
    /\ flag_age = 0
    /\ flag_timeout = 200

(***************************************************************************)
(* Claims on the crawl accounting and the retargeting (SpecCrawl).         *)
(***************************************************************************)
BodyZ == Get(body_xyz).z

\* A step in which HumanoidFlagrunHarder.calc_potential() reported a value: the
\* driver's call, or the call calc_state makes after moving the flag
HarderReportStep ==
    /\ robot = "HumanoidFlagrunHarder"
    /\ call'.op = "calc_potential" \/ (call'.op = "calc_state" /\ potential_fresh')

\* The previous report and this one both saw the torso below 0.8
DownWindowStep ==
    /\ HarderReportStep
    /\ crawl_start_potential # None
    /\ Get(body_xyz').z < 8

\* C2, as stated: between two consecutive ticks with the torso below 0.8 the
\* potential calc_potential() reports does not change.
C2_PotentialConstantWhileDown ==
    [][DownWindowStep => potential' = potential]_vars

\* C2, amended: between two consecutive ticks with the torso below 0.8 the frozen
\* progress crawl_start_potential does not change, and the potential reported is
\* that frozen progress plus 100 * potential_leak(): it moves with the height only.
C2_ProgressFrozenWhileDown ==
    [][DownWindowStep =>
          /\ crawl_start_potential' = crawl_start_potential
          /\ Get(potential') = Get(crawl_start_potential) + leak100(Get(body_xyz').z)]_vars

\* The robot was down on two consecutive ticks between which its raw progress changed.
C2_Witness ==
    /\ robot = "HumanoidFlagrunHarder"
    /\ call.op = "calc_potential"
    /\ BodyZ < 8
    /\ down_prev
    /\ raw_ignored # 0
    /\ crawl_ignored_potential # 0
    /\ Get(potential) = Get(crawl_start_potential) + leak100(BodyZ)

\* C3: on a tick with the torso at 0.8 or above, the progress term of the potential
\* reported is the raw progress potential minus the sum of the raw progress changes
\* between consecutive down ticks since reset, and crawl_start_potential is unset.
C3_IgnoredProgressReconciled ==
    (robot = "HumanoidFlagrunHarder" /\ potential_fresh /\ BodyZ >= 8) =>
        /\ Get(potential) - leak100(BodyZ)
               = WalkerBase_calc_potential(walk_target_dist) - raw_ignored
        /\ crawl_start_potential = None

\* The robot stands again after a window down in which its raw progress changed.
C3_Witness ==
    /\ robot = "HumanoidFlagrunHarder"
    /\ potential_fresh
    /\ BodyZ >= 8
    /\ raw_ignored # 0
    /\ crawl_start_potential = None
    /\ ticks >= 3

\* C9: a calc_state call that moves the flag returns with the stored potential equal
\* to calc_potential() on the distance from the pose to the new target; a call that
\* does not move the flag leaves the stored potential as it was.
C9_PotentialFollowsNewTarget ==
    [][FlagrunCalcStateStep =>
          IF flag_age' = 0
          THEN potential' =
                 Some(calc_potential(call'.arg.z,
                                     norm(walk_target_y' - call'.arg.y,
                                          walk_target_x' - call'.arg.x),
                                     crawl_start_potential',
                                     crawl_ignored_potential').ret)
          ELSE potential' = potential]_vars

\* The flag was moved away from a robot that had reached it, after the first tick.
C9_Witness ==
    /\ call.op = "calc_state"
    /\ flag_age = 0
    /\ ticks >= 2
    /\ potential_fresh
    /\ walk_target_dist >= Scale
    /\ potential # None

(***************************************************************************)
(* Claims on alive_bonus (SpecAlive, SpecAttack).                          *)
(***************************************************************************)
AliveBonusStep == call'.op = "alive_bonus"

\* C4: on_ground_frame_counter is 0 after reset; alive_bonus(z, pitch) adds 1 to it
\* when z < 0.8 and otherwise takes 1 off unless it is 0, so it is never negative;
\* the call returns -1 exactly when the counter it leaves is 170 or more, and
\* otherwise potential_leak(), which lies between 1 and 2.
C4_GroundRecoveryCounter ==
    [][/\ (call'.op = "robot_specific_reset") => on_ground_frame_counter' = 0
       /\ AliveBonusStep =>
              /\ on_ground_frame_counter' =
                     IF call'.arg < 8 THEN on_ground_frame_counter + 1
                     ELSE IF on_ground_frame_counter = 0 THEN 0
                     ELSE on_ground_frame_counter - 1
              /\ on_ground_frame_counter' >= 0
              /\ call'.ret = -8 <=> on_ground_frame_counter' >= 170
              /\ on_ground_frame_counter' < 170 =>
                     /\ call'.ret = clipInt(BodyZ, 0, 8) + 8
                     /\ call'.ret >= 8]_vars

\* The robot stayed down until the counter reached 170 and alive_bonus returned -1.
C4_Witness ==
    /\ call.op = "alive_bonus"
    /\ on_ground_frame_counter = 170
    /\ call.pre = 169
    /\ call.ret = -8

\* C5: alive_bonus resets the cube exactly when the tick index is a multiple of 30
\* and above 100 and on_ground_frame_counter is 0 on entry; otherwise the cube is as
\* it was.
C5_AttackOnlyWhenStanding ==
    [][AliveBonusStep =>
          /\ cube_was_reset' <=>
                 (frame' % 30 = 0 /\ frame' > 100 /\ on_ground_frame_counter = 0)
          /\ ~cube_was_reset' => aggressive_cube' = aggressive_cube
          /\ cube_was_reset' => aggressive_cube' # Some(cube_spawn)]_vars

\* An attack was launched at frame 120 at a robot whose counter was 0 on entry, on
\* the third tick of an episode or later, with the cube placed above the body.
C5_Witness ==
    /\ call.op = "alive_bonus"
    /\ cube_was_reset
    /\ frame = 120
    /\ call.pre = 0
    /\ ticks >= 3
    /\ Get(aggressive_cube).position.z = BodyZ + 10
=============================================================================
